---------------------------- MODULE Spec2Model ----------------------------
(***************************************************************************)
(* applecast-cli: fetch a podcast episode page, extract its metadata      *)
(* (structured-data block first, meta-tag scan as fallback), save it as   *)
(* JSON, locate the transcript URL in the embedded server data and        *)
(* download the transcript.  Source: src/src/main.rs.                     *)
(*                                                                         *)
(* Text is a sequence of symbols.  A symbol is one character, except for  *)
(* a few literals that the program only ever treats as a whole (the       *)
(* script wrapper's opening tag, "</script>", the JSON literal null and   *)
(* the key names the program looks up), which are one symbol each.        *)
(***************************************************************************)
EXTENDS Integers, Sequences, FiniteSets, TLC

VARIABLES
    \* main (src/src/main.rs:30-86)
    pc, argv, page, exit_code, stdout, stderr, files, calls, metadata,
    transcript,
    \* extract_metadata / extract_from_meta_tags (src/src/main.rs:136-304)
    document, idx, episode_title, description, show_title, publish_date,
    scanned, extracted,
    \* find_transcript_url (src/src/main.rs:342-396)
    payload, html_content, located,
    \* find_closed_captions_url (src/src/main.rs:363-393)
    json_value, found,
    \* clean_text (src/src/main.rs:307-322): the text given, the local
    \* `cleaned`, and what the successive calls returned
    source_text, cleaned_text, passes,
    \* serde_json's map type: insertion order (feature preserve_order) or
    \* key order (the default)
    preserve_order

runVars == <<argv, page, exit_code, stdout, stderr, files, calls, metadata,
             transcript>>
mainVars == <<pc, runVars>>
extractVars == <<document, idx, episode_title, description, show_title,
                 publish_date, scanned, extracted>>
locateVars == <<payload, html_content, located>>
jsonVars == <<json_value, found>>
cleanVars == <<source_text, cleaned_text, passes>>
vars == <<mainVars, extractVars, locateVars, jsonVars, cleanVars,
          preserve_order>>

----------------------------------------------------------------------------
(* Symbols *)

SP == " "
NL == "\n"
LT == "<"
GT == ">"
QUOTE == "\""
MIDDOT == "·"
\* src/src/main.rs:348, the regex's two literals
OPEN_TAG == "<script type=\"application/json\" id=\"serialized-server-data\">"
CLOSE_TAG == "</script>"

\* char::is_whitespace, as far as the alphabet goes
IsWhitespace(c) == c \in {SP, NL}

\* Option<T>: None is <<>>, Some(x) is <<x>>
None == <<>>
Some(x) == <<x>>
IsSome(o) == Len(o) = 1

Min(a, b) == IF a < b THEN a ELSE b

----------------------------------------------------------------------------
(* str helpers *)

\* str::find(c) from position `from` on: the least index >= from holding c,
\* 0 when there is none
RECURSIVE Find(_, _, _)
Find(s, c, from) ==
    IF from > Len(s) THEN 0
    ELSE IF s[from] = c THEN from
    ELSE Find(s, c, from + 1)

\* str::trim_start / trim_end / trim
RECURSIVE TrimStart(_)
TrimStart(s) ==
    IF s # <<>> /\ IsWhitespace(Head(s)) THEN TrimStart(Tail(s)) ELSE s

RECURSIVE TrimEnd(_)
TrimEnd(s) ==
    IF s # <<>> /\ IsWhitespace(s[Len(s)])
    THEN TrimEnd(SubSeq(s, 1, Len(s) - 1))
    ELSE s

Trim(s) == TrimEnd(TrimStart(s))

\* str::split_whitespace: the maximal runs of non-whitespace, in order
RECURSIVE SplitWhitespaceFrom(_, _, _)
SplitWhitespaceFrom(s, i, cur) ==
    IF i > Len(s) THEN (IF cur = <<>> THEN <<>> ELSE <<cur>>)
    ELSE IF IsWhitespace(s[i])
         THEN (IF cur = <<>> THEN <<>> ELSE <<cur>>)
              \o SplitWhitespaceFrom(s, i + 1, <<>>)
         ELSE SplitWhitespaceFrom(s, i + 1, Append(cur, s[i]))

SplitWhitespace(s) == SplitWhitespaceFrom(s, 1, <<>>)

\* [&str]::join(" ")
RECURSIVE JoinSpace(_)
JoinSpace(parts) ==
    IF parts = <<>> THEN <<>>
    ELSE IF Len(parts) = 1 THEN parts[1]
    ELSE parts[1] \o <<SP>> \o JoinSpace(Tail(parts))

\* whether pat occurs in s at position i
MatchesAt(s, pat, i) ==
    /\ i + Len(pat) - 1 <= Len(s)
    /\ \A k \in 1..Len(pat) : s[i + k - 1] = pat[k]

\* str::split(pat) for a non-empty pat: the pieces between the successive
\* non-overlapping occurrences of pat, scanning from the left
RECURSIVE SplitFrom(_, _, _, _)
SplitFrom(s, pat, i, cur) ==
    IF i > Len(s) THEN <<cur>>
    ELSE IF MatchesAt(s, pat, i)
         THEN <<cur>> \o SplitFrom(s, pat, i + Len(pat), <<>>)
         ELSE SplitFrom(s, pat, i + 1, Append(cur, s[i]))

Split(s, pat) == SplitFrom(s, pat, 1, <<>>)

----------------------------------------------------------------------------
(* clean_text, src/src/main.rs:307-322 *)

\* the while loop of lines 312-318: delete from the first '<' to the first
\* '>' at or after it, until there is no '<' or no '>' after it
RECURSIVE RemoveTags(_)
RemoveTags(cleaned) ==
    LET start == Find(cleaned, LT, 1) IN
    IF start = 0 THEN cleaned
    ELSE LET end == Find(cleaned, GT, start) IN
         IF end = 0 THEN cleaned
         ELSE RemoveTags(SubSeq(cleaned, 1, start - 1)
                         \o SubSeq(cleaned, end + 1, Len(cleaned)))

clean_text(text) == JoinSpace(SplitWhitespace(RemoveTags(text)))

----------------------------------------------------------------------------
(* serde_json::Value and serde_json::Map, as main.rs uses them *)

\* Every value has the same three fields: t the variant, s the text of a
\* string or number, m the entries of an object (in the map's iteration
\* order, keys distinct) or of an array (keys empty).
JNull == [t |-> "null", s |-> <<>>, m |-> <<>>]
JNum(d) == [t |-> "num", s |-> d, m |-> <<>>]
JStr(str) == [t |-> "str", s |-> str, m |-> <<>>]
JObj(entries) == [t |-> "obj", s |-> <<>>, m |-> entries]
JArr(entries) == [t |-> "arr", s |-> <<>>, m |-> entries]
Entry(key, val) == [k |-> key, v |-> val]
Elem(val) == [k |-> <<>>, v |-> val]

\* The symbols in the byte order of their text; String's Ord compares keys
\* symbol by symbol in this order.
SymOrder == <<NL, SP, QUOTE, ",", "1", ":", LT, CLOSE_TAG, OPEN_TAG, GT,
              "[", "]", "a", "b", "closedCaptions", "datePublished",
              "description", "name", "null", "partOfSeries", "url",
              "{", "}", MIDDOT>>

Rank(c) == CHOOSE i \in 1..Len(SymOrder) : SymOrder[i] = c

RECURSIVE KeyLess(_, _)
KeyLess(a, b) ==
    IF b = <<>> THEN FALSE
    ELSE IF a = <<>> THEN TRUE
    ELSE IF Head(a) = Head(b) THEN KeyLess(Tail(a), Tail(b))
    ELSE Rank(Head(a)) < Rank(Head(b))

\* Map::get
MapGet(m, key) ==
    LET hits == {i \in 1..Len(m) : m[i].k = key} IN
    IF hits = {} THEN None ELSE Some(m[CHOOSE i \in hits : TRUE].v)

\* Map::insert: an existing key keeps its place and takes the new value; a
\* new key goes last (po, an IndexMap) or to its place in key order (a
\* BTreeMap).
MapInsert(m, key, val, po) ==
    LET hits == {i \in 1..Len(m) : m[i].k = key} IN
    IF hits # {}
    THEN LET i == CHOOSE h \in hits : TRUE IN [m EXCEPT ![i].v = val]
    ELSE IF po THEN Append(m, Entry(key, val))
    ELSE LET before == Cardinality({i \in 1..Len(m) : KeyLess(m[i].k, key)})
         IN SubSeq(m, 1, before) \o <<Entry(key, val)>>
            \o SubSeq(m, before + 1, Len(m))

\* Value's Index<&str>: Null unless the value is an object holding the key
Index(value, key) ==
    IF value.t = "obj" /\ IsSome(MapGet(value.m, key))
    THEN MapGet(value.m, key)[1]
    ELSE JNull

\* Value::get(&str): None unless the value is an object holding the key
Get(value, key) ==
    IF value.t = "obj" THEN MapGet(value.m, key) ELSE None

\* Value::as_str
AsStr(value) == IF value.t = "str" THEN Some(value.s) ELSE None

\* Option<&str>::unwrap_or("")
UnwrapOrEmpty(o) == IF IsSome(o) THEN o[1] ELSE <<>>

----------------------------------------------------------------------------
(* serde_json::from_str, called at src/src/main.rs:163 and :357.           *)
(* A recursive-descent reading of the JSON grammar over the symbols:       *)
(* objects, arrays, strings (no escapes; a raw line break inside a string  *)
(* is an error), the number symbol "1" and the literal null; whitespace    *)
(* between tokens; nothing but whitespace after the value.                 *)

ParseFail == [ok |-> FALSE, v |-> JNull, i |-> 0]
Parsed(val, next) == [ok |-> TRUE, v |-> val, i |-> next]

RECURSIVE SkipWs(_, _)
SkipWs(s, i) ==
    IF i <= Len(s) /\ IsWhitespace(s[i]) THEN SkipWs(s, i + 1) ELSE i

\* s[i] is the first symbol after the opening quote
RECURSIVE ParseString(_, _, _)
ParseString(s, i, acc) ==
    IF i > Len(s) \/ s[i] = NL THEN ParseFail
    ELSE IF s[i] = QUOTE THEN Parsed(JStr(acc), i + 1)
    ELSE ParseString(s, i + 1, Append(acc, s[i]))

RECURSIVE ParseDigits(_, _, _)
ParseDigits(s, i, acc) ==
    IF i <= Len(s) /\ s[i] = "1" THEN ParseDigits(s, i + 1, Append(acc, "1"))
    ELSE Parsed(JNum(acc), i)

RECURSIVE ParseValue(_, _, _)
RECURSIVE ParseMembers(_, _, _, _)
RECURSIVE ParseElements(_, _, _, _)

ParseValue(s, i, po) ==
    LET j == SkipWs(s, i) IN
    IF j > Len(s) THEN ParseFail
    ELSE IF s[j] = "{" THEN
        LET k == SkipWs(s, j + 1) IN
        IF k <= Len(s) /\ s[k] = "}" THEN Parsed(JObj(<<>>), k + 1)
        ELSE ParseMembers(s, k, <<>>, po)
    ELSE IF s[j] = "[" THEN
        LET k == SkipWs(s, j + 1) IN
        IF k <= Len(s) /\ s[k] = "]" THEN Parsed(JArr(<<>>), k + 1)
        ELSE ParseElements(s, k, <<>>, po)
    ELSE IF s[j] = QUOTE THEN ParseString(s, j + 1, <<>>)
    ELSE IF s[j] = "null" THEN Parsed(JNull, j + 1)
    ELSE IF s[j] = "1" THEN ParseDigits(s, j, <<>>)
    ELSE ParseFail

\* s[i] is where the next key must start
ParseMembers(s, i, acc, po) ==
    LET j == SkipWs(s, i) IN
    IF j > Len(s) \/ s[j] # QUOTE THEN ParseFail
    ELSE LET key == ParseString(s, j + 1, <<>>) IN
    IF ~key.ok THEN ParseFail
    ELSE LET c == SkipWs(s, key.i) IN
    IF c > Len(s) \/ s[c] # ":" THEN ParseFail
    ELSE LET val == ParseValue(s, c + 1, po) IN
    IF ~val.ok THEN ParseFail
    ELSE LET map == MapInsert(acc, key.v.s, val.v, po)
             n == SkipWs(s, val.i) IN
    IF n > Len(s) THEN ParseFail
    ELSE IF s[n] = "}" THEN Parsed(JObj(map), n + 1)
    ELSE IF s[n] = "," THEN ParseMembers(s, n + 1, map, po)
    ELSE ParseFail

\* s[i] is where the next element must start
ParseElements(s, i, acc, po) ==
    LET val == ParseValue(s, i, po) IN
    IF ~val.ok THEN ParseFail
    ELSE LET arr == Append(acc, Elem(val.v))
             n == SkipWs(s, val.i) IN
    IF n > Len(s) THEN ParseFail
    ELSE IF s[n] = "]" THEN Parsed(JArr(arr), n + 1)
    ELSE IF s[n] = "," THEN ParseElements(s, n + 1, arr, po)
    ELSE ParseFail

\* from_str: Some(value), or None for text that is not one JSON value
from_str(s, po) ==
    LET r == ParseValue(s, 1, po) IN
    IF r.ok /\ SkipWs(s, r.i) > Len(s) THEN Some(r.v) ELSE None

----------------------------------------------------------------------------
(* find_closed_captions_url, src/src/main.rs:363-393 *)

\* lines 367-373: the object's own closedCaptions.url, when it is a string
OwnCaptionsUrl(map) ==
    LET cc == MapGet(map, <<"closedCaptions">>) IN
    IF ~IsSome(cc) THEN None
    ELSE LET url == Get(cc[1], <<"url">>) IN
         IF ~IsSome(url) THEN None ELSE AsStr(url[1])

\* what a search gives: the Option<String> returned, and the number of
\* calls of find_closed_captions_url it took
Searched(url, n) == [url |-> url, n |-> n]

\* the object's values searched before its own closedCaptions is looked at
VisitChildrenFirst(value) ==
    LET RECURSIVE V(_)
        RECURSIVE E(_, _)
        E(m, i) ==
            IF i > Len(m) THEN Searched(None, 0)
            ELSE LET r == V(m[i].v) IN
                 IF IsSome(r.url) THEN r
                 ELSE Searched(E(m, i + 1).url, r.n + E(m, i + 1).n)
        V(v) ==
            IF v.t \in {"obj", "arr"} THEN
                LET r == E(v.m, 1) IN
                IF IsSome(r.url) \/ v.t = "arr" THEN Searched(r.url, r.n + 1)
                ELSE Searched(OwnCaptionsUrl(v.m), r.n + 1)
            ELSE Searched(None, 1)
    IN V(value)

RECURSIVE Visit(_)
RECURSIVE SearchEntries(_, _)

\* the for loops of lines 375-379 and 384-388, from entry i on
SearchEntries(m, i) ==
    IF i > Len(m) THEN Searched(None, 0)
    ELSE LET r == Visit(m[i].v) IN
         IF IsSome(r.url) THEN r
         ELSE LET rest == SearchEntries(m, i + 1) IN
              Searched(rest.url, r.n + rest.n)

\* one call of find_closed_captions_url, lines 364-392
Visit(value) ==
    IF value.t = "obj" THEN
        LET own == OwnCaptionsUrl(value.m) IN
        IF IsSome(own) THEN Searched(own, 1)
        ELSE LET r == SearchEntries(value.m, 1) IN Searched(r.url, r.n + 1)
    ELSE IF value.t = "arr" THEN
        LET r == SearchEntries(value.m, 1) IN Searched(r.url, r.n + 1)
    ELSE Searched(None, 1)

find_closed_captions_url(value) == Visit(value).url

----------------------------------------------------------------------------
(* Metadata and the parsed document *)

\* struct Metadata, src/src/main.rs:13-18
Metadata(et, d, st, pd) ==
    [episode_title |-> et, description |-> d, show_title |-> st,
     publish_date |-> pd]
EmptyMetadata == Metadata(<<>>, <<>>, <<>>, <<>>)
Fields == {"episode_title", "description", "show_title", "publish_date"}

\* anyhow::Result<Metadata>
Ok(m) == [ok |-> TRUE, v |-> m, e |-> ""]
Err(msg) == [ok |-> FALSE, v |-> EmptyMetadata, e |-> msg]

\* What the program reads of a page: text, the page's characters (the regex
\* of find_transcript_url runs on them); ld, the text content of the first
\* script element with id schema:episode, if any; metas, the meta elements
\* in document order.  ld and metas are what Html::parse_document and the
\* two selectors give.
Page(ld, metas, text) == [ld |-> ld, metas |-> metas, text |-> text]

\* a meta element's attributes, each an Option
Meta(property, name, itemprop, content) ==
    [property |-> property, name |-> name, itemprop |-> itemprop,
     content |-> content]

----------------------------------------------------------------------------
(* extract_from_json_ld, src/src/main.rs:152-191 *)

ProjectJsonLd(json_value_) ==
    Metadata(
        Trim(UnwrapOrEmpty(AsStr(Index(json_value_, <<"name">>)))),
        Trim(UnwrapOrEmpty(AsStr(Index(json_value_, <<"description">>)))),
        Trim(UnwrapOrEmpty(AsStr(
            Index(Index(json_value_, <<"partOfSeries">>), <<"name">>)))),
        Trim(UnwrapOrEmpty(AsStr(Index(json_value_, <<"datePublished">>)))))

\* a missing name treated as a failure
extract_from_json_ld_strict(doc, po) ==
    IF ~IsSome(doc.ld) THEN Err("JSON-LD schema not found")
    ELSE LET parsed == from_str(doc.ld[1], po) IN
         IF ~IsSome(parsed) THEN Err("Failed to parse JSON-LD")
         ELSE IF ~IsSome(AsStr(Index(parsed[1], <<"name">>)))
              THEN Err("Failed to parse JSON-LD")
              ELSE Ok(ProjectJsonLd(parsed[1]))

extract_from_json_ld(doc, po) ==
    IF ~IsSome(doc.ld) THEN Err("JSON-LD schema not found")
    ELSE LET parsed == from_str(doc.ld[1], po) IN
         IF ~IsSome(parsed) THEN Err("Failed to parse JSON-LD")
         ELSE Ok(ProjectJsonLd(parsed[1]))

----------------------------------------------------------------------------
(* extract_from_meta_tags, src/src/main.rs:194-304 *)

\* three independent tests in place of the else-if chain: a family whose
\* value is not in its table lets the next family speak
TargetFieldAnyFamily(element) ==
    IF IsSome(element.property)
       /\ element.property[1] \in {"og:title", "og:description", "og:site_name"}
    THEN CASE element.property[1] = "og:title" -> "episode_title"
           [] element.property[1] = "og:description" -> "description"
           [] OTHER -> "show_title"
    ELSE IF IsSome(element.name)
            /\ element.name[1] \in {"apple:title", "description",
                                    "apple:description"}
    THEN (IF element.name[1] = "apple:title" THEN "episode_title"
          ELSE "description")
    ELSE IF IsSome(element.itemprop) THEN
        CASE element.itemprop[1] \in {"name", "headline"} -> "episode_title"
          [] element.itemprop[1] = "description" -> "description"
          [] element.itemprop[1] = "publisher" -> "show_title"
          [] element.itemprop[1] = "datePublished" -> "publish_date"
          [] OTHER -> ""
    ELSE ""

\* lines 204-279: the field an element's first present attribute family
\* dispatches to, "" when the value is not in that family's table
TargetField(element) ==
    IF IsSome(element.property) THEN
        CASE element.property[1] = "og:title" -> "episode_title"
          [] element.property[1] = "og:description" -> "description"
          [] element.property[1] = "og:site_name" -> "show_title"
          [] OTHER -> ""
    ELSE IF IsSome(element.name) THEN
        CASE element.name[1] = "apple:title" -> "episode_title"
          [] element.name[1] \in {"description", "apple:description"}
               -> "description"
          [] OTHER -> ""
    ELSE IF IsSome(element.itemprop) THEN
        CASE element.itemprop[1] \in {"name", "headline"} -> "episode_title"
          [] element.itemprop[1] = "description" -> "description"
          [] element.itemprop[1] = "publisher" -> "show_title"
          [] element.itemprop[1] = "datePublished" -> "publish_date"
          [] OTHER -> ""
    ELSE ""

\* the loop body without the is_empty() guards
ScanElementOverwrite(f, element) ==
    LET field == TargetField(element) IN
    IF field # "" /\ IsSome(element.content)
    THEN [f EXCEPT ![field] = clean_text(element.content[1])]
    ELSE f

\* the loop body storing the content attribute as it is
ScanElementRaw(f, element) ==
    LET field == TargetField(element) IN
    IF field # "" /\ f[field] = <<>> /\ IsSome(element.content)
    THEN [f EXCEPT ![field] = element.content[1]]
    ELSE f

\* one iteration of the loop of lines 203-280 on the four fields f
ScanElement(f, element) ==
    LET field == TargetField(element) IN
    IF field # "" /\ f[field] = <<>> /\ IsSome(element.content)
    THEN [f EXCEPT ![field] = clean_text(element.content[1])]
    ELSE f

RECURSIVE ScanFrom(_, _, _)
ScanFrom(f, metas, i) ==
    IF i > Len(metas) THEN f
    ELSE ScanFrom(ScanElement(f, metas[i]), metas, i + 1)

\* the split of og:description applied without the is_empty() test of
\* line 283
RecoverShowTitleAlways(f, metas) ==
    LET hits == {i \in 1..Len(metas) :
                   metas[i].property = Some("og:description")} IN
    IF hits = {} THEN f
    ELSE LET element == metas[CHOOSE i \in hits : \A j \in hits : i <= j] IN
         IF ~IsSome(element.content) THEN f
         ELSE LET parts == Split(element.content[1], <<SP, MIDDOT, SP>>) IN
              IF Len(parts) >= 2
              THEN [f EXCEPT !.show_title = Trim(parts[2])]
              ELSE f

\* lines 283-296: show_title recovered from the first og:description element
RecoverShowTitle(f, metas) ==
    IF f.show_title # <<>> THEN f
    ELSE LET hits == {i \in 1..Len(metas) :
                        metas[i].property = Some("og:description")} IN
         IF hits = {} THEN f
         ELSE LET element == metas[CHOOSE i \in hits :
                                     \A j \in hits : i <= j] IN
              IF ~IsSome(element.content) THEN f
              ELSE LET parts == Split(element.content[1],
                                      <<SP, MIDDOT, SP>>) IN
                   IF Len(parts) >= 2
                   THEN [f EXCEPT !.show_title = Trim(parts[2])]
                   ELSE f

extract_from_meta_tags(doc) ==
    Ok(RecoverShowTitle(ScanFrom(EmptyMetadata, doc.metas, 1), doc.metas))

----------------------------------------------------------------------------
(* extract_metadata, src/src/main.rs:136-149 *)

\* a field-by-field merge: the empty fields of the JSON-LD result filled
\* from the tag scan
extract_metadata_merged(read, po) ==
    IF ~IsSome(read) THEN Err("Failed to read HTML file")
    ELSE LET primary == extract_from_json_ld(read[1], po)
             fallback == extract_from_meta_tags(read[1]) IN
         IF primary.ok
         THEN Ok([f \in Fields |-> IF primary.v[f] # <<>> THEN primary.v[f]
                                   ELSE fallback.v[f]])
         ELSE fallback

\* no fallback: the error of extract_from_json_ld passed on with `?`
extract_metadata_primary_only(read, po) ==
    IF ~IsSome(read) THEN Err("Failed to read HTML file")
    ELSE extract_from_json_ld(read[1], po)

\* read is what fs::read_to_string gave: None on failure, else the page
extract_metadata(read, po) ==
    IF ~IsSome(read) THEN Err("Failed to read HTML file")
    ELSE LET primary == extract_from_json_ld(read[1], po) IN
         IF primary.ok THEN primary
         ELSE extract_from_meta_tags(read[1])

----------------------------------------------------------------------------
(* find_transcript_url, src/src/main.rs:342-396 *)

\* The lazy group (.*?) followed by the literal </script>: from position j
\* on, the first </script> with no line break before it ('.' matches every
\* character but the line break); 0 when there is none.
RECURSIVE LazyEnd(_, _)
LazyEnd(text, j) ==
    IF j > Len(text) THEN 0
    ELSE IF text[j] = CLOSE_TAG THEN j
    ELSE IF text[j] = NL THEN 0
    ELSE LazyEnd(text, j + 1)

\* Regex::captures, lines 347-354: the leftmost position where the whole
\* pattern matches; group 1 of that match
RECURSIVE CapturesFrom(_, _)
CapturesFrom(text, i) ==
    IF i > Len(text) THEN None
    ELSE IF text[i] = OPEN_TAG /\ LazyEnd(text, i + 1) # 0
         THEN Some(SubSeq(text, i + 1, LazyEnd(text, i + 1) - 1))
         ELSE CapturesFrom(text, i + 1)

Captures(text) == CapturesFrom(text, 1)

\* Result<Option<String>>
FoundOk(url) == [ok |-> TRUE, url |-> url]
FoundErr == [ok |-> FALSE, url |-> None]

\* the parse error passed on with `?` in place of the match of lines 357-360
find_transcript_url_strict(read, po) ==
    IF ~IsSome(read) THEN FoundErr
    ELSE LET captures == Captures(read[1]) IN
         IF ~IsSome(captures) THEN FoundOk(None)
         ELSE LET parsed == from_str(captures[1], po) IN
              IF ~IsSome(parsed) THEN FoundErr
              ELSE FoundOk(find_closed_captions_url(parsed[1]))

\* read is what fs::read_to_string gave: None on failure, else the text
find_transcript_url(read, po) ==
    IF ~IsSome(read) THEN FoundErr
    ELSE LET captures == Captures(read[1]) IN
         IF ~IsSome(captures) THEN FoundOk(None)
         ELSE LET parsed == from_str(captures[1], po) IN
              IF ~IsSome(parsed) THEN FoundOk(None)
              ELSE FoundOk(find_closed_captions_url(parsed[1]))

----------------------------------------------------------------------------
(* validate_url, src/src/main.rs:89-93.                                    *)
(* Url::parse over the symbols "http", "https" (a scheme name each), the   *)
(* letters, '-', ':', '/' and the space: a scheme (letters, then '-' or    *)
(* letters) and ':' are required; after http: or https: any run of '/' is  *)
(* skipped and a non-empty host of letters and '-' must follow, with an    *)
(* optional ':' and empty port; any other scheme takes whatever follows.   *)

UrlLetters == {"http", "https", "a", "b"}

RECURSIVE SchemeEnd(_, _)
\* the index of the ':' that ends the scheme starting at 1, 0 if none
SchemeEnd(u, i) ==
    IF i > Len(u) THEN 0
    ELSE IF u[i] = ":" THEN (IF i = 1 THEN 0 ELSE i)
    ELSE IF u[i] \in UrlLetters \/ (i > 1 /\ u[i] = "-")
         THEN SchemeEnd(u, i + 1)
    ELSE 0

RECURSIVE SkipSlashes(_, _)
SkipSlashes(u, i) ==
    IF i <= Len(u) /\ u[i] = "/" THEN SkipSlashes(u, i + 1) ELSE i

UrlParseOk(input) ==
    LET u == Trim(input)
        colon == SchemeEnd(u, 1) IN
    IF colon = 0 THEN FALSE
    ELSE IF SubSeq(u, 1, colon - 1) \notin {<<"http">>, <<"https">>} THEN TRUE
    ELSE LET h == SkipSlashes(u, colon + 1)
             slash == Find(u, "/", h)
             authority == SubSeq(u, h, IF slash = 0 THEN Len(u) ELSE slash - 1)
             port == Find(authority, ":", 1)
             host == IF port = 0 THEN authority
                     ELSE SubSeq(authority, 1, port - 1) IN
         /\ host # <<>>
         /\ \A k \in 1..Len(host) : host[k] \in UrlLetters \cup {"-"}
         /\ port \in {0, Len(authority)}

\* Result<(), String>: None for Ok(()), Some(message) for Err
Line(prefix, msg, arg) == [prefix |-> prefix, msg |-> msg, arg |-> arg]

validate_url(url_str) ==
    IF UrlParseOk(url_str) THEN None
    ELSE Some(Line("", "Invalid URL format: ", url_str))

\* whether reqwest can send a request to the (valid) URL: http and https only
IsHttpUrl(url_str) ==
    LET u == Trim(url_str) IN
    SubSeq(u, 1, SchemeEnd(u, 1) - 1) \in {<<"http">>, <<"https">>}

----------------------------------------------------------------------------
(* main, src/src/main.rs:30-86 *)

html_path == "output/episode.html"
json_path == "output/metadata.json"
transcript_path == "output/transcript.ttml"
Paths == {html_path, json_path, transcript_path}

\* the command line after the program name: nothing, --help, or one URL
HELP == <<"--help">>

\* The ways fetch_html (lines 96-133) and download_transcript (lines
\* 399-435) end, in the order of their steps
TransferOutcomes ==
    {"mkdir_failed", "client_failed", "send_failed", "status_failed",
     "body_failed", "write_failed", "ok"}

\* the message of fetch_html's Err
FetchError(outcome) ==
    CASE outcome = "mkdir_failed" -> "Failed to create output directory"
      [] outcome = "client_failed" -> "Failed to create HTTP client"
      [] outcome = "send_failed" -> "Failed to fetch URL"
      [] outcome = "status_failed" -> "HTTP request failed with status: 404"
      [] outcome = "body_failed" -> "Failed to read response body"
      [] outcome = "write_failed" -> "Failed to write to file"

\* the message of download_transcript's Err
DownloadError(outcome) ==
    CASE outcome = "mkdir_failed" -> "Failed to create output directory"
      [] outcome = "client_failed" -> "Failed to create HTTP client"
      [] outcome = "send_failed" -> "Failed to fetch transcript URL"
      [] outcome = "status_failed" -> "HTTP request failed with status: 404"
      [] outcome = "body_failed" -> "Failed to read transcript response body"
      [] outcome = "write_failed" -> "Failed to write transcript file"

\* fs::write creates (or truncates) the file and then writes it: a failure
\* leaves no file, or one that is not whole
AfterWrite(outcome) ==
    IF outcome = "ok" THEN {"written"}
    ELSE IF outcome = "write_failed" THEN {"absent", "partial"}
    ELSE {"absent"}

\* one call main made: the function, what the environment did during it
\* (the way a transfer or write ended, whether the snapshot could be read)
\* and whether it returned Ok
Call(fn, io, ok) == [fn |-> fn, io |-> io, ok |-> ok]

\* JSON text, for the pages and payloads the runs start from
Str(str) == <<QUOTE>> \o str \o <<QUOTE>>
Member(key, valtext) == Str(<<key>>) \o <<":">> \o valtext
Braces(text) == <<"{">> \o text \o <<"}">>
Brackets(text) == <<"[">> \o text \o <<"]">>
Wrapped(text) == <<OPEN_TAG>> \o text \o <<CLOSE_TAG>>
\* {"closedCaptions":{"url":"<str>"}}
CaptionsText(str) ==
    Braces(Member("closedCaptions", Braces(Member("url", Str(str)))))

IdleExtract ==
    /\ document = Page(None, <<>>, <<>>)
    /\ idx = 0
    /\ episode_title = <<>>
    /\ description = <<>>
    /\ show_title = <<>>
    /\ publish_date = <<>>
    /\ scanned = EmptyMetadata
    /\ extracted = None
IdleLocate == payload = <<>> /\ html_content = <<>> /\ located = None
IdleJson == json_value = JNull /\ found = None
IdleClean == source_text = <<>> /\ cleaned_text = <<>> /\ passes = <<>>
IdleMain ==
    /\ argv = <<>>
    /\ page = Page(None, <<>>, <<>>)
    /\ exit_code = None
    /\ stdout = <<>>
    /\ stderr = <<>>
    /\ files = [p \in Paths |-> "absent"]
    /\ calls = <<>>
    /\ metadata = None
    /\ transcript = None

\* the URLs a run is started with
Urls ==
    {<<"https", ":", "/", "/", "a", "/", "b">>,
     <<"http", ":", "/", "/", "a">>,
     <<"a", "-", "b">>,
     <<>>,
     <<"http", ":", "/", "/">>,
     <<"a", ":", "b">>}

Argvs == {<<>>, <<HELP>>} \cup {<<u>> : u \in Urls}

\* the pages the server answers with
MainLds ==
    {None,
     Some(<<"{">>),
     Some(Brackets(<<>>)),
     Some(Braces(Member("name", Str(<<SP, "a", SP>>)))),
     Some(Braces(Member("name", Str(<<"a">>)) \o <<",">>
                 \o Member("description", Str(<<"b">>)) \o <<",">>
                 \o Member("datePublished", Str(<<"1">>)) \o <<",">>
                 \o Member("partOfSeries",
                            Braces(Member("name", Str(<<"a", "b">>))))))}
MainMetas ==
    {<<>>,
     <<Meta(Some("og:description"), None, None,
            Some(<<"a", SP, MIDDOT, SP, "b">>))>>,
     <<Meta(Some("og:title"), None, None, Some(<<LT, "a", GT, "b">>)),
       Meta(None, None, Some("datePublished"), Some(<<"1">>))>>}
MainTexts ==
    {<<"a">>,
     Wrapped(CaptionsText(<<"a">>)),
     <<LT, GT, NL>> \o Wrapped(Brackets(CaptionsText(<<"b">>))) \o <<NL>>,
     Wrapped(Brackets(<<>>))}
MainPages ==
    {Page(ld, metas, text) : ld \in MainLds, metas \in MainMetas,
                             text \in MainTexts}

Init ==
    /\ pc = "parse_args"
    /\ argv \in Argvs
    /\ page \in MainPages
    /\ exit_code = None
    /\ stdout = <<>>
    /\ stderr = <<>>
    /\ files = [p \in Paths |-> "absent"]
    /\ calls = <<>>
    /\ metadata = None
    /\ transcript = None
    /\ preserve_order \in BOOLEAN
    /\ IdleExtract /\ IdleLocate /\ IdleJson /\ IdleClean

notMain == <<extractVars, locateVars, jsonVars, cleanVars, preserve_order>>

\* process::exit(code), and the status 0 of main returning
ExitAlwaysZero(code) == Some(0)
Exit(code) == Some(code)

\* the step main takes after each step that succeeded
NextStep ==
    CASE pc = "validate" -> "fetch"
      [] pc = "fetch" -> "extract"
      [] pc = "extract" -> "save"
      [] pc = "save" -> "find"
      [] OTHER -> "exited"

\* lines 34-37, 44-47, 54-57, 62-65: eprintln! and process::exit(1)
FatalFallsThrough(line) ==
    /\ stderr' = Append(stderr, line)
    /\ pc' = NextStep
    /\ UNCHANGED <<stdout, exit_code>>
Fatal(line) ==
    /\ stderr' = Append(stderr, line)
    /\ exit_code' = Exit(1)
    /\ pc' = "exited"
    /\ UNCHANGED stdout

\* lines 76 and 83: eprintln! of a warning, after which main returns
Warn(line) ==
    /\ stderr' = Append(stderr, line)
    /\ exit_code' = Exit(0)
    /\ pc' = "exited"
    /\ UNCHANGED stdout

\* a println! after which main goes on to step next
Proceed(line, next) ==
    /\ stdout' = Append(stdout, line)
    /\ pc' = next
    /\ UNCHANGED <<stderr, exit_code>>

\* a println! after which main returns
Finish(line) ==
    /\ stdout' = Append(stdout, line)
    /\ exit_code' = Exit(0)
    /\ pc' = "exited"
    /\ UNCHANGED stderr

\* line 31, Args::parse(): clap ends the process itself with status 2 when
\* the required URL is missing, and with status 0 after printing the help
ParseArgs ==
    /\ pc = "parse_args"
    /\ IF argv = <<>> THEN
            /\ stderr' = Append(stderr,
                   Line("error: ",
                        "the following required arguments were not provided",
                        <<>>))
            /\ exit_code' = Exit(2)
            /\ pc' = "exited"
            /\ UNCHANGED stdout
       ELSE IF argv = <<HELP>> THEN Finish(Line("", "Usage", <<>>))
       ELSE /\ pc' = "validate"
            /\ UNCHANGED <<stdout, stderr, exit_code>>
    /\ UNCHANGED <<argv, page, files, calls, metadata, transcript, notMain>>

\* lines 33-40
ValidateUrl ==
    /\ pc = "validate"
    /\ LET r == validate_url(argv[1]) IN
       /\ calls' = Append(calls, Call("validate_url", "", ~IsSome(r)))
       /\ IF IsSome(r)
          THEN Fatal([r[1] EXCEPT !.prefix = "Error: "])
          ELSE Proceed(Line("", "Received URL: ", argv[1]), "fetch")
    /\ UNCHANGED <<argv, page, files, metadata, transcript, notMain>>

\* lines 42-49, with fetch_html (lines 96-133); reqwest sends to http and
\* https URLs only
FetchHtml ==
    /\ pc = "fetch"
    /\ \E outcome \in TransferOutcomes :
       /\ IF IsHttpUrl(argv[1]) THEN TRUE
          ELSE outcome \in {"mkdir_failed", "client_failed", "send_failed"}
       /\ \E left \in AfterWrite(outcome) :
            files' = [files EXCEPT ![html_path] = left]
       /\ calls' = Append(calls, Call("fetch_html", outcome, outcome = "ok"))
       /\ IF outcome = "ok"
          THEN Proceed(Line("", "Fetched HTML content.", <<>>), "extract")
          ELSE Fatal(Line("Error: ", FetchError(outcome), <<>>))
    /\ UNCHANGED <<argv, page, metadata, transcript, notMain>>

\* lines 51-58, with extract_metadata
ExtractMetadata ==
    /\ pc = "extract"
    /\ \E readable \in BOOLEAN :
       LET r == extract_metadata(IF readable THEN Some(page) ELSE None,
                                 preserve_order) IN
       /\ calls' = Append(calls,
              Call("extract_metadata",
                   IF readable THEN "read_ok" ELSE "read_failed", r.ok))
       /\ IF r.ok THEN
              /\ metadata' = Some(r.v)
              /\ pc' = "save"
              /\ UNCHANGED <<stdout, stderr, exit_code>>
          ELSE
              /\ Fatal(Line("Error extracting metadata: ", r.e, <<>>))
              /\ UNCHANGED metadata
    /\ UNCHANGED <<argv, page, files, transcript, notMain>>

\* lines 60-67, with save_metadata_json (lines 325-339)
SaveMetadataJson ==
    /\ pc = "save"
    /\ \E outcome \in {"mkdir_failed", "write_failed", "ok"} :
       /\ \E left \in AfterWrite(outcome) :
            files' = [files EXCEPT ![json_path] = left]
       /\ calls' = Append(calls,
              Call("save_metadata_json", outcome, outcome = "ok"))
       /\ IF outcome = "ok"
          THEN Proceed(Line("", "Metadata extracted and saved to ", <<>>),
                       "find")
          ELSE Fatal(Line("Error saving metadata: ",
                          IF outcome = "mkdir_failed"
                          THEN "Failed to create output directory"
                          ELSE "Failed to write JSON file", <<>>))
    /\ UNCHANGED <<argv, page, metadata, transcript, notMain>>

\* lines 69-85, the match on find_transcript_url; main returns (status 0)
\* from the Ok(None) and Err arms
FindTranscriptUrl ==
    /\ pc = "find"
    /\ \E readable \in BOOLEAN :
       LET r == find_transcript_url(
                    IF readable THEN Some(page.text) ELSE None,
                    preserve_order) IN
       /\ calls' = Append(calls,
              Call("find_transcript_url",
                   IF readable THEN "read_ok" ELSE "read_failed", r.ok))
       /\ IF r.ok /\ IsSome(r.url) THEN
              /\ transcript' = r.url
              /\ pc' = "download"
              /\ UNCHANGED <<stdout, stderr, exit_code>>
          ELSE IF r.ok THEN
              /\ Finish(Line("", "No transcript found for this episode.",
                             <<>>))
              /\ UNCHANGED transcript
          ELSE
              /\ Warn(Line("Error searching for transcript: ",
                           "Failed to read HTML file", <<>>))
              /\ UNCHANGED transcript
    /\ UNCHANGED <<argv, page, files, metadata, notMain>>

\* lines 72-78, with download_transcript (lines 399-435); main returns
DownloadTranscript ==
    /\ pc = "download"
    /\ \E outcome \in TransferOutcomes :
       /\ \E left \in AfterWrite(outcome) :
            files' = [files EXCEPT ![transcript_path] = left]
       /\ calls' = Append(calls,
              Call("download_transcript", outcome, outcome = "ok"))
       /\ IF outcome = "ok"
          THEN Finish(Line("", "Transcript downloaded and saved to ", <<>>))
          ELSE Warn(Line("Failed to download transcript: ",
                         DownloadError(outcome), <<>>))
    /\ UNCHANGED <<argv, page, metadata, transcript, notMain>>

Next ==
    \/ ParseArgs
    \/ ValidateUrl
    \/ FetchHtml
    \/ ExtractMetadata
    \/ SaveMetadataJson
    \/ FindTranscriptUrl
    \/ DownloadTranscript

Spec == Init /\ [][Next]_vars

----------------------------------------------------------------------------
(* The run of main *)

StepOrder ==
    <<"validate_url", "fetch_html", "extract_metadata", "save_metadata_json",
      "find_transcript_url", "download_transcript">>

Succeeded(fn) == \E i \in 1..Len(calls) : calls[i].fn = fn /\ calls[i].ok
Failed(fn) == \E i \in 1..Len(calls) : calls[i].fn = fn /\ ~calls[i].ok
GivenUrl == argv # <<>> /\ argv # <<HELP>>

\* C1 as stated, for the runs that were given a URL: the run exits with
\* status 1 exactly when URL validation, the page fetch or the metadata
\* extraction failed, and with status 0 after all three succeeded.
C1_ExitOneOnlyOnThreeFailures ==
    (pc = "exited" /\ GivenUrl) =>
        /\ exit_code = Some(1) <=>
              \/ Failed("validate_url")
              \/ Failed("fetch_html")
              \/ Failed("extract_metadata")
        /\ exit_code # Some(1) =>
              /\ exit_code = Some(0)
              /\ Succeeded("validate_url")
              /\ Succeeded("fetch_html")
              /\ Succeeded("extract_metadata")

\* C1, amended: a run that was given a URL exits with status 1 exactly when
\* URL validation, the page fetch, the metadata extraction or the saving of
\* the metadata JSON failed, and with status 0 after all four succeeded; a
\* run without the URL argument ends with status 2 and --help with status 0,
\* both before any step; no status is set while the run goes on.
C1_ExitStatus ==
    /\ pc # "exited" => exit_code = None
    /\ (pc = "exited" /\ GivenUrl) =>
        /\ exit_code = Some(1) <=>
              \/ Failed("validate_url")
              \/ Failed("fetch_html")
              \/ Failed("extract_metadata")
              \/ Failed("save_metadata_json")
        /\ exit_code # Some(1) =>
              /\ exit_code = Some(0)
              /\ Succeeded("validate_url")
              /\ Succeeded("fetch_html")
              /\ Succeeded("extract_metadata")
              /\ Succeeded("save_metadata_json")
    /\ (pc = "exited" /\ argv = <<>>) => exit_code = Some(2) /\ calls = <<>>
    /\ (pc = "exited" /\ argv = <<HELP>>) => exit_code = Some(0) /\ calls = <<>>

\* a run whose first three steps succeeded and that ended with status 1
C1_SaveFailureExitsOne ==
    /\ pc = "exited"
    /\ Succeeded("extract_metadata")
    /\ Failed("save_metadata_json")
    /\ exit_code = Some(1)

\* C2 as stated: once the metadata is saved, a run that ends without a
\* downloaded transcript (find_transcript_url gave Ok(None) or Err, or
\* download_transcript failed) exits with status 0 and reports it as one
\* warning on standard error and nowhere else.
C2_TranscriptOutcomeWarnsOnStderr ==
    (/\ pc = "exited"
     /\ Succeeded("save_metadata_json")
     /\ ~Succeeded("download_transcript")) =>
        /\ exit_code = Some(0)
        /\ Len(stderr) = 1
        /\ stderr[1].prefix \in {"Error searching for transcript: ",
                                 "Failed to download transcript: "}
        /\ Len(stdout) = 3

\* C3: the steps run in the order validate, fetch, extract, save, locate,
\* download; each runs only after every earlier one succeeded, so a failed
\* step is the last one; download_transcript runs only with the URL that
\* find_transcript_url returned; the files the run has written are a prefix
\* of (HTML snapshot, metadata JSON, transcript).
C3_StepsInOrder ==
    /\ Len(calls) <= Len(StepOrder)
    /\ \A i \in 1..Len(calls) : calls[i].fn = StepOrder[i]
    /\ \A i \in 1..(Len(calls) - 1) : calls[i].ok
    /\ (\E i \in 1..Len(calls) : ~calls[i].ok) => pc = "exited"
    /\ (pc = "download" \/ Len(calls) = 6) => IsSome(transcript)
    /\ Len(calls) = 6 =>
          find_transcript_url(Some(page.text), preserve_order)
              = FoundOk(transcript)
    /\ files[html_path] # "absent" => Len(calls) >= 2
    /\ files[json_path] # "absent" =>
          Len(calls) >= 4 /\ files[html_path] = "written"
    /\ files[transcript_path] # "absent" =>
          Len(calls) = 6 /\ files[json_path] = "written"

\* a run that took all six steps and wrote all three files
C3_FullRun ==
    /\ pc = "exited"
    /\ Len(calls) = 6
    /\ \A p \in Paths : files[p] = "written"

----------------------------------------------------------------------------
(* extract_metadata as main called it *)

\* the structured-data block of the fetched page parsed as JSON, if it is
\* there and parses
UsableBlock ==
    IF IsSome(page.ld) THEN from_str(page.ld[1], preserve_order) ELSE None

\* the string at a path of keys in a JSON value, trimmed; "" when a key is
\* missing or the value there is not a string
RECURSIVE At(_, _)
At(value, path) ==
    IF path = <<>> THEN value ELSE At(Index(value, <<Head(path)>>), Tail(path))
TextAt(value, path) == Trim(UnwrapOrEmpty(AsStr(At(value, path))))

ExtractCall(i) == calls[i].fn = "extract_metadata"

\* C4: extract_metadata never merges the two strategies.  Whenever the
\* structured-data block is there and parses, the four fields of the
\* returned Metadata are the block's name, description, partOfSeries.name
\* and datePublished (empty where the block has no such string), whatever
\* the meta tags of the page hold; whenever extract_from_json_ld fails, the
\* returned Metadata is the one of extract_from_meta_tags.
C4_NoMerging ==
    Succeeded("extract_metadata") =>
        /\ IsSome(metadata)
        /\ IF IsSome(UsableBlock)
           THEN metadata[1] =
                  Metadata(TextAt(UsableBlock[1], <<"name">>),
                           TextAt(UsableBlock[1], <<"description">>),
                           TextAt(UsableBlock[1], <<"partOfSeries", "name">>),
                           TextAt(UsableBlock[1], <<"datePublished">>))
           ELSE metadata[1] = extract_from_meta_tags(page).v

\* the block gave a Metadata with an empty description on a page whose meta
\* tags hold a description, and the returned description is empty
C4_EmptyFieldKept ==
    /\ Succeeded("extract_metadata")
    /\ IsSome(UsableBlock)
    /\ metadata[1].description = <<>>
    /\ metadata[1].episode_title # <<>>
    /\ extract_from_meta_tags(page).v.description # <<>>

\* C5: for every readable snapshot whose document has no usable
\* structured-data block (absent, or not valid JSON), extract_metadata
\* returns Ok with the Metadata of the tag scan, possibly all empty; the
\* only failed call of extract_metadata is one that could not read the
\* snapshot, and only then does the run report an extraction error.
C5_FallbackNeverFails ==
    /\ \A i \in 1..Len(calls) :
          ExtractCall(i) => (calls[i].ok <=> calls[i].io = "read_ok")
    /\ \A i \in 1..Len(calls) :
          (ExtractCall(i) /\ calls[i].io = "read_ok" /\ ~IsSome(UsableBlock))
              => /\ metadata = Some(extract_from_meta_tags(page).v)
                 /\ extract_from_meta_tags(page).ok
    /\ \A i \in 1..Len(stderr) :
          stderr[i].prefix = "Error extracting metadata: "
              => /\ stderr[i].msg = "Failed to read HTML file"
                 /\ \E j \in 1..Len(calls) :
                       ExtractCall(j) /\ calls[j].io = "read_failed"

\* a page without structured data and without meta elements was read, and
\* the all-empty Metadata was returned
C5_EmptyMetadataReturned ==
    /\ Succeeded("extract_metadata")
    /\ page.ld = None
    /\ page.metas = <<>>
    /\ metadata = Some(EmptyMetadata)

----------------------------------------------------------------------------
(* extract_from_meta_tags, src/src/main.rs:194-304, one meta element at a  *)
(* time: idx is the position of the loop of line 203 in document.metas,    *)
(* the four locals of lines 198-201 are variables, scanned is their value  *)
(* when the loop ended and extracted the Metadata returned.                *)

MaxMetas == 2

\* the attributes of the meta elements: each value of the three tables, a
\* value outside them, no attribute at all, and elements with attributes of
\* two families
ScanAttrs ==
    {<<Some(p), None, None>> :
        p \in {"og:title", "og:description", "og:site_name", "og:image"}}
    \cup {<<None, Some(n), None>> :
        n \in {"apple:title", "description", "apple:description", "viewport"}}
    \cup {<<None, None, Some(i)>> :
        i \in {"name", "headline", "description", "publisher",
               "datePublished", "image"}}
    \cup {<<None, None, None>>,
          <<Some("og:image"), Some("apple:title"), None>>,
          <<Some("og:title"), None, Some("datePublished")>>,
          <<None, Some("viewport"), Some("publisher")>>,
          <<None, Some("description"), Some("name")>>}

\* content attributes: absent, plain, markup only, markup and whitespace
ScanContents ==
    {None, Some(<<"a">>), Some(<<LT, "b", GT, SP>>),
     Some(<<SP, "b", SP, SP, LT, GT, "a">>)}

\* og:description contents with the delimiter of line 291
DelimitedContents ==
    {Some(<<"a", SP, MIDDOT, SP, LT, "b", GT, SP, SP, "a", SP>>),
     Some(<<"b", SP, MIDDOT, SP, SP>>),
     Some(<<"a", SP, MIDDOT, SP, "b", SP, MIDDOT, SP, "1">>)}

ScanElements ==
    {Meta(a[1], a[2], a[3], c) : a \in ScanAttrs, c \in ScanContents}
    \cup {Meta(Some("og:description"), None, None, c) :
             c \in DelimitedContents}

ScanPages ==
    {Page(None, metas, <<>>) :
        metas \in UNION {[1..n -> ScanElements] : n \in 0..MaxMetas}}

CurrentFields == Metadata(episode_title, description, show_title, publish_date)

ScanInit ==
    /\ pc = "scan"
    /\ document \in ScanPages
    /\ idx = 1
    /\ episode_title = <<>>
    /\ description = <<>>
    /\ show_title = <<>>
    /\ publish_date = <<>>
    /\ scanned = EmptyMetadata
    /\ extracted = None
    /\ preserve_order = FALSE
    /\ IdleMain /\ IdleLocate /\ IdleJson /\ IdleClean

\* lines 203-280: the loop body on the next meta element
ScanMeta ==
    /\ pc = "scan"
    /\ idx <= Len(document.metas)
    /\ LET f == ScanElement(CurrentFields, document.metas[idx]) IN
       /\ episode_title' = f.episode_title
       /\ description' = f.description
       /\ show_title' = f.show_title
       /\ publish_date' = f.publish_date
    /\ idx' = idx + 1
    /\ UNCHANGED <<pc, document, scanned, extracted>>
    /\ UNCHANGED <<runVars, locateVars, jsonVars, cleanVars, preserve_order>>

\* lines 282-303: the loop is over; show_title recovered from og:description
\* if it is still empty, and the Metadata returned
ReturnMetadata ==
    /\ pc = "scan"
    /\ idx > Len(document.metas)
    /\ scanned' = CurrentFields
    /\ LET f == RecoverShowTitle(CurrentFields, document.metas) IN
       /\ show_title' = f.show_title
       /\ extracted' = Some(f)
    /\ pc' = "returned"
    /\ UNCHANGED <<document, idx, episode_title, description, publish_date>>
    /\ UNCHANGED <<runVars, locateVars, jsonVars, cleanVars, preserve_order>>

ScanNext == ScanMeta \/ ReturnMetadata

SpecScan == ScanInit /\ [][ScanNext]_vars

\* what a meta element offers its target field: its content attribute cleaned
Contribution(element) ==
    IF IsSome(element.content) THEN clean_text(element.content[1]) ELSE <<>>

\* the elements among the first n that target field and offer it a
\* non-empty value
Producers(field, n) ==
    {i \in 1..n : /\ TargetField(document.metas[i]) = field
                  /\ Contribution(document.metas[i]) # <<>>}

FirstProduced(field, n) ==
    IF Producers(field, n) = {} THEN <<>>
    ELSE Contribution(document.metas[
             CHOOSE i \in Producers(field, n) :
                 \A j \in Producers(field, n) : i <= j])

\* the attribute family an element is dispatched on
Family(element) ==
    IF IsSome(element.property) THEN "property"
    ELSE IF IsSome(element.name) THEN "name"
    ELSE IF IsSome(element.itemprop) THEN "itemprop"
    ELSE ""

\* a field that holds a value keeps it in the step
FieldsKept ==
    /\ episode_title # <<>> => episode_title' = episode_title
    /\ description # <<>> => description' = description
    /\ show_title # <<>> => show_title' = show_title
    /\ publish_date # <<>> => publish_date' = publish_date

\* C9: first-write-wins in extract_from_meta_tags.  No step of the scan
\* changes a field that already holds a non-empty value, whichever attribute
\* family the element at hand uses; after every element, and when the loop
\* ends, each field holds the value offered by the earliest element so far
\* that targets the field with a non-empty cleaned content (and is empty
\* when there is none); the returned episode_title, description and
\* publish_date are these values, and so is the returned show_title when
\* the scan filled it.
C9_FirstWriteWins ==
    /\ [][FieldsKept]_vars
    /\ [](pc = "scan" =>
            \A f \in Fields : CurrentFields[f] = FirstProduced(f, idx - 1))
    /\ [](pc = "returned" =>
            /\ idx = Len(document.metas) + 1
            /\ \A f \in Fields :
                  scanned[f] = FirstProduced(f, Len(document.metas))
            /\ \A f \in Fields \ {"show_title"} :
                  extracted[1][f] = scanned[f]
            /\ scanned.show_title # <<>> =>
                  extracted[1].show_title = scanned.show_title)

\* two elements of different attribute families offered the same field
\* different non-empty values, and the returned value is the first one's
C9_LaterFamilyIgnored ==
    /\ pc = "returned"
    /\ \E f \in Fields :
         \E i, j \in Producers(f, Len(document.metas)) :
            /\ i < j
            /\ Family(document.metas[i]) # Family(document.metas[j])
            /\ Contribution(document.metas[i]) # Contribution(document.metas[j])
            /\ extracted[1][f] = Contribution(document.metas[i])

\* no complete <...> span
NoTagSpan(s) ==
    ~\E i, j \in 1..Len(s) : i < j /\ s[i] = LT /\ s[j] = GT
\* no leading or trailing whitespace
NoEdgeWhitespace(s) ==
    s = <<>> \/ (~IsWhitespace(s[1]) /\ ~IsWhitespace(s[Len(s)]))
\* no run of more than one whitespace character
NoWhitespaceRun(s) ==
    \A i \in 1..(Len(s) - 1) : ~(IsWhitespace(s[i]) /\ IsWhitespace(s[i + 1]))
\* an output of clean_text
Normalized(s) ==
    /\ NoTagSpan(s)
    /\ NoEdgeWhitespace(s)
    /\ NoWhitespaceRun(s)
    /\ clean_text(s) = s

\* C10 as stated: every non-empty field of the Metadata returned by
\* extract_from_meta_tags is an output of clean_text, with no complete <...>
\* span, no leading or trailing whitespace and no whitespace run, however
\* the field was filled.
C10_EveryFieldNormalized ==
    pc = "returned" =>
        \A f \in Fields :
            extracted[1][f] # <<>> => Normalized(extracted[1][f])

\* C10, amended: every field the scan over the meta elements filled is an
\* output of clean_text (no complete <...> span, no leading or trailing
\* whitespace, no whitespace run), during the scan and in the returned
\* Metadata; a show_title the scan left empty and the og:description split
\* recovered is the second part of that content, trimmed only: it has no
\* leading or trailing whitespace, and keeps the markup and the whitespace
\* runs of the content.
C10_ScannedFieldsNormalized ==
    /\ \A f \in Fields : Normalized(CurrentFields[f]) \/ pc = "returned"
    /\ pc = "returned" =>
        /\ \A f \in Fields : Normalized(scanned[f])
        /\ \A f \in Fields \ {"show_title"} : Normalized(extracted[1][f])
        /\ IF scanned.show_title # <<>>
           THEN Normalized(extracted[1].show_title)
           ELSE /\ NoEdgeWhitespace(extracted[1].show_title)
                /\ \A i \in 1..Len(document.metas) :
                      (/\ document.metas[i].property = Some("og:description")
                       /\ \A j \in 1..(i - 1) :
                             document.metas[j].property
                                 # Some("og:description")
                       /\ IsSome(document.metas[i].content)
                       /\ Len(Split(document.metas[i].content[1],
                                    <<SP, MIDDOT, SP>>)) >= 2)
                      => extracted[1].show_title =
                           Trim(Split(document.metas[i].content[1],
                                      <<SP, MIDDOT, SP>>)[2])

\* the scan filled the description from a content with markup and
\* whitespace runs, and the show_title was recovered from the split with a
\* tag and a whitespace run left in it
C10_RecoveredTitleKeepsMarkup ==
    /\ pc = "returned"
    /\ scanned.show_title = <<>>
    /\ extracted[1].show_title # <<>>
    /\ ~NoTagSpan(extracted[1].show_title)
    /\ ~NoWhitespaceRun(extracted[1].show_title)
    /\ extracted[1].description # <<>>
    /\ \E i \in 1..Len(document.metas) :
          /\ document.metas[i].content # Some(extracted[1].description)
          /\ Contribution(document.metas[i]) = extracted[1].description
          /\ TargetField(document.metas[i]) = "description"

----------------------------------------------------------------------------
(* find_closed_captions_url, src/src/main.rs:363-393, on the JSON values   *)
(* built from a scalar by wrapping it in objects and arrays next to other  *)
(* values; the maps are filled with Map::insert, as the parser fills them. *)

MaxDepth == 4

RECURSIVE Depth(_)
RECURSIVE DepthFrom(_, _)
DepthFrom(m, i) ==
    IF i > Len(m) THEN 0
    ELSE LET d == Depth(m[i].v)
             rest == DepthFrom(m, i + 1) IN
         IF d > rest THEN d ELSE rest
Depth(value) == 1 + DepthFrom(value.m, 1)

JsonScalars == {JStr(<<"a">>), JNum(<<"1">>)}
JsonKeys == {<<"a">>, <<"closedCaptions">>, <<"url">>}
\* null, {"url":"b"} and {"closedCaptions":{"url":"b"}}
JsonSiblings ==
    {JNull,
     JObj(<<Entry(<<"url">>, JStr(<<"b">>))>>),
     JObj(<<Entry(<<"closedCaptions">>,
                  JObj(<<Entry(<<"url">>, JStr(<<"b">>))>>))>>)}

JsonInit ==
    /\ pc = "build"
    /\ json_value \in JsonScalars
    /\ found = None
    /\ preserve_order \in BOOLEAN
    /\ IdleMain /\ IdleExtract /\ IdleLocate /\ IdleClean

\* {key: json_value}, or that object with a second member inserted before
\* or after it
WrapObject ==
    /\ pc = "build"
    /\ Depth(json_value) < MaxDepth
    /\ \E key \in JsonKeys :
         LET single == MapInsert(<<>>, key, json_value, preserve_order) IN
         \/ json_value' = JObj(single)
         \/ \E other \in JsonKeys \ {key}, val \in JsonSiblings :
               \/ json_value' =
                    JObj(MapInsert(single, other, val, preserve_order))
               \/ json_value' =
                    JObj(MapInsert(MapInsert(<<>>, other, val, preserve_order),
                                   key, json_value, preserve_order))
    /\ UNCHANGED <<found, preserve_order, mainVars, extractVars, locateVars,
                   cleanVars>>

\* [json_value], or that array with one more element before or after it
WrapArray ==
    /\ pc = "build"
    /\ Depth(json_value) < MaxDepth
    /\ \/ json_value' = JArr(<<Elem(json_value)>>)
       \/ \E val \in JsonSiblings :
             \/ json_value' = JArr(<<Elem(val), Elem(json_value)>>)
             \/ json_value' = JArr(<<Elem(json_value), Elem(val)>>)
    /\ UNCHANGED <<found, preserve_order, mainVars, extractVars, locateVars,
                   cleanVars>>

\* line 395: find_closed_captions_url(&json_value)
SearchJson ==
    /\ pc = "build"
    /\ found' = Some(Visit(json_value))
    /\ pc' = "searched"
    /\ UNCHANGED <<json_value, preserve_order, runVars, extractVars,
                   locateVars, cleanVars>>

JsonNext == WrapObject \/ WrapArray \/ SearchJson

SpecJson == JsonInit /\ [][JsonNext]_vars

\* the closedCaptions.url strings of a value: those of the objects whose
\* member closedCaptions is an object with a string member url, in
\* pre-order (an object before its values, values and elements in
\* iteration order)
OwnUrls(value) ==
    IF value.t # "obj" THEN <<>>
    ELSE LET cc == {i \in 1..Len(value.m) :
                      /\ value.m[i].k = <<"closedCaptions">>
                      /\ value.m[i].v.t = "obj"} IN
         IF cc = {} THEN <<>>
         ELSE LET inner == value.m[CHOOSE i \in cc : TRUE].v.m
                  url == {i \in 1..Len(inner) :
                            /\ inner[i].k = <<"url">>
                            /\ inner[i].v.t = "str"} IN
              IF url = {} THEN <<>>
              ELSE <<inner[CHOOSE i \in url : TRUE].v.s>>

RECURSIVE AllUrls(_)
RECURSIVE AllUrlsFrom(_, _)
AllUrlsFrom(m, i) ==
    IF i > Len(m) THEN <<>>
    ELSE AllUrls(m[i].v) \o AllUrlsFrom(m, i + 1)
AllUrls(value) == OwnUrls(value) \o AllUrlsFrom(value.m, 1)

RECURSIVE NodeCount(_)
RECURSIVE NodeCountFrom(_, _)
NodeCountFrom(m, i) ==
    IF i > Len(m) THEN 0
    ELSE NodeCount(m[i].v) + NodeCountFrom(m, i + 1)
NodeCount(value) == 1 + NodeCountFrom(value.m, 1)

\* C7: for every JSON value, find_closed_captions_url ends, after at most
\* one call per node of the value, and returns the first match of the
\* depth-first traversal: the first, in pre-order, of the closedCaptions.url
\* strings of the value's objects.  An object with its own string-valued
\* closedCaptions.url returns it in that very call, before any of its
\* values is descended into, whatever the key order; scalars give None;
\* None is returned only when no object of the tree has such a url.
C7_FirstMatchDepthFirst ==
    pc = "searched" =>
        /\ IsSome(found)
        /\ found[1].url = IF AllUrls(json_value) = <<>> THEN None
                          ELSE Some(Head(AllUrls(json_value)))
        /\ found[1].n >= 1
        /\ found[1].n <= NodeCount(json_value)
        /\ OwnUrls(json_value) # <<>> =>
              /\ found[1].url = Some(OwnUrls(json_value)[1])
              /\ found[1].n = 1
        /\ json_value.t \notin {"obj", "arr"} => found[1].url = None

\* an object whose first member in iteration order is not closedCaptions
\* and holds another url deeper down, and whose own closedCaptions.url is
\* what the search returned
C7_OwnUrlBeforeValues ==
    /\ pc = "searched"
    /\ json_value.t = "obj"
    /\ OwnUrls(json_value) # <<>>
    /\ json_value.m[1].k # <<"closedCaptions">>
    /\ AllUrls(json_value.m[1].v) # <<>>
    /\ Head(AllUrls(json_value.m[1].v)) # OwnUrls(json_value)[1]
    /\ found[1].url = Some(OwnUrls(json_value)[1])

----------------------------------------------------------------------------
(* find_transcript_url, src/src/main.rs:342-396, on documents made of a    *)
(* payload text and what surrounds it.  payload is the text meant for the  *)
(* wrapper, html_content the text of the snapshot, located what the call   *)
(* returned; calls records whether the snapshot could be read.             *)

MaxNoise == 1

\* characters a payload can hold next to its JSON tokens
NoiseSymbols == {NL, SP, LT, GT}
NoiseCount(text) == Cardinality({i \in 1..Len(text) : text[i] \in NoiseSymbols})

\* {"closedCaptions":{"url":"a"}}, [{"a":{"closedCaptions":{"url":"b"}}}],
\* {"url":"a"}, {"closedCaptions":{"url":1}}, a url holding </script>, and
\* two texts that are not JSON
Payloads ==
    {CaptionsText(<<"a">>),
     Brackets(Braces(Member("a", CaptionsText(<<"b">>)))),
     Braces(Member("url", Str(<<"a">>))),
     Braces(Member("closedCaptions", Braces(Member("url", <<"1">>)))),
     CaptionsText(<<"a", CLOSE_TAG>>),
     <<"{">>,
     <<>>}

\* what stands before and after the wrapper in the document
Prefixes == {<<>>, <<LT, "a", GT, NL>>, <<CLOSE_TAG>>, Wrapped(<<NL>>)}
Suffixes == {<<>>, <<NL, LT, "a", GT>>, <<CLOSE_TAG>>,
             Wrapped(CaptionsText(<<"b">>))}

LocateInit ==
    /\ pc = "payload"
    /\ payload \in Payloads
    /\ html_content = <<>>
    /\ located = None
    /\ preserve_order \in BOOLEAN
    /\ IdleMain /\ IdleExtract /\ IdleJson /\ IdleClean

\* one more character somewhere in the payload
InsertNoise ==
    /\ pc = "payload"
    /\ NoiseCount(payload) < MaxNoise
    /\ \E i \in 0..Len(payload), c \in NoiseSymbols :
         payload' = SubSeq(payload, 1, i) \o <<c>>
                    \o SubSeq(payload, i + 1, Len(payload))
    /\ UNCHANGED <<html_content, located, preserve_order, mainVars,
                   extractVars, jsonVars, cleanVars>>

\* the page holds the payload in the wrapper
Embed ==
    /\ pc = "payload"
    /\ \E pre \in Prefixes, post \in Suffixes :
         html_content' = pre \o Wrapped(payload) \o post
    /\ pc' = "document"
    /\ UNCHANGED <<payload, located, preserve_order, runVars, extractVars,
                   jsonVars, cleanVars>>

\* the page holds the payload without the wrapper, or a part of the wrapper
Bare ==
    /\ pc = "payload"
    /\ html_content' \in {payload, <<OPEN_TAG>> \o payload,
                          payload \o <<CLOSE_TAG>>,
                          <<CLOSE_TAG>> \o payload \o <<OPEN_TAG>>}
    /\ pc' = "document"
    /\ UNCHANGED <<payload, located, preserve_order, runVars, extractVars,
                   jsonVars, cleanVars>>

\* find_transcript_url(html_path)
Locate ==
    /\ pc = "document"
    /\ \E readable \in BOOLEAN :
         LET r == find_transcript_url(
                      IF readable THEN Some(html_content) ELSE None,
                      preserve_order) IN
         /\ located' = Some(r)
         /\ calls' = Append(calls,
                Call("find_transcript_url",
                     IF readable THEN "read_ok" ELSE "read_failed", r.ok))
    /\ pc' = "located"
    /\ UNCHANGED <<payload, html_content, preserve_order, argv, page,
                   exit_code, stdout, stderr, files, metadata, transcript,
                   extractVars, jsonVars, cleanVars>>

LocateNext == InsertNoise \/ Embed \/ Bare \/ Locate

SpecLocate == LocateInit /\ [][LocateNext]_vars

\* the call of find_transcript_url read the snapshot
SnapshotRead ==
    /\ pc = "located"
    /\ calls = <<Call("find_transcript_url", "read_ok", located[1].ok)>>

\* the positions of the opening tags that have a </script> after them
Openings(text) ==
    {i \in 1..Len(text) :
        /\ text[i] = OPEN_TAG
        /\ \E j \in (i + 1)..Len(text) : text[j] = CLOSE_TAG}
HasWrapper(text) == Openings(text) # {}

\* the text between the first opening tag and the next </script>
Between(text) ==
    LET i == CHOOSE o \in Openings(text) : \A p \in Openings(text) : o <= p
        j == CHOOSE c \in (i + 1)..Len(text) :
                 /\ text[c] = CLOSE_TAG
                 /\ \A d \in (i + 1)..(c - 1) : text[d] # CLOSE_TAG
    IN SubSeq(text, i + 1, j - 1)

\* C6: on a readable snapshot find_transcript_url returns Ok, and Ok(None)
\* in each of these cases: the page has no opening tag of the wrapper with
\* a </script> after it; the regex captured a text that is not valid JSON;
\* the captured text parses but no object of the value has a closedCaptions
\* with a string-valued url.
C6_NotFoundIsNotAnError ==
    SnapshotRead =>
        LET captures == Captures(html_content) IN
        /\ located[1].ok
        /\ ~HasWrapper(html_content) => located[1] = FoundOk(None)
        /\ (IsSome(captures)
              /\ ~IsSome(from_str(captures[1], preserve_order)))
             => located[1] = FoundOk(None)
        /\ (/\ IsSome(captures)
            /\ IsSome(from_str(captures[1], preserve_order))
            /\ AllUrls(from_str(captures[1], preserve_order)[1]) = <<>>)
             => located[1] = FoundOk(None)

\* the wrapper was found, its text is not JSON, and Ok(None) was returned
C6_InvalidJsonGivesNone ==
    /\ SnapshotRead
    /\ IsSome(Captures(html_content))
    /\ Captures(html_content)[1] # <<>>
    /\ ~IsSome(from_str(Captures(html_content)[1], preserve_order))
    /\ located[1] = FoundOk(None)

\* C8 as stated: for every document text holding the wrapper, the payload
\* handed to the JSON parser is the text between the first opening tag and
\* the next </script>, whatever characters it holds; so the call returns
\* what the search finds in that text parsed, and Some(url) for a valid
\* payload with a closedCaptions.url.
C8_PayloadBetweenTags ==
    (SnapshotRead /\ HasWrapper(html_content)) =>
        LET parsed == from_str(Between(html_content), preserve_order) IN
        located[1] = FoundOk(IF IsSome(parsed)
                             THEN find_closed_captions_url(parsed[1])
                             ELSE None)

----------------------------------------------------------------------------
(* The og:description split, src/src/main.rs:282-296 *)

\* the positions where the delimiter " · " stands in a text
DelimiterAt(text) ==
    {i \in 1..(Len(text) - 2) :
        text[i] = SP /\ text[i + 1] = MIDDOT /\ text[i + 2] = SP}

\* the text after the first delimiter, up to the next delimiter that starts
\* after it, or to the end
SecondPart(text) ==
    LET first == CHOOSE i \in DelimiterAt(text) :
                     \A j \in DelimiterAt(text) : i <= j
        later == {j \in DelimiterAt(text) : j >= first + 3} IN
    IF later = {} THEN SubSeq(text, first + 3, Len(text))
    ELSE SubSeq(text, first + 3,
                (CHOOSE j \in later : \A k \in later : j <= k) - 1)

\* the first element with property og:description, an Option
FirstOgDescription ==
    LET hits == {i \in 1..Len(document.metas) :
                   document.metas[i].property = Some("og:description")} IN
    IF hits = {} THEN None
    ELSE Some(document.metas[CHOOSE i \in hits : \A j \in hits : i <= j])

\* C11: show-name recovery.  A show_title the scan filled is returned as
\* the scan left it.  When the scan left show_title empty, the returned
\* show_title is the second part of the content of the first og:description
\* element, trimmed, if that content holds the delimiter " · " at least
\* once, and stays empty otherwise (no such element, no content, no
\* delimiter).  episode_title, description and publish_date are returned as
\* the scan left them.
C11_ShowTitleRecovery ==
    pc = "returned" =>
        /\ extracted[1].episode_title = scanned.episode_title
        /\ extracted[1].description = scanned.description
        /\ extracted[1].publish_date = scanned.publish_date
        /\ episode_title = scanned.episode_title
        /\ description = scanned.description
        /\ publish_date = scanned.publish_date
        /\ show_title = extracted[1].show_title
        /\ scanned.show_title # <<>> =>
              extracted[1].show_title = scanned.show_title
        /\ scanned.show_title = <<>> =>
              extracted[1].show_title =
                IF /\ IsSome(FirstOgDescription)
                   /\ IsSome(FirstOgDescription[1].content)
                   /\ DelimiterAt(FirstOgDescription[1].content[1]) # {}
                THEN Trim(SecondPart(FirstOgDescription[1].content[1]))
                ELSE <<>>

\* the scan left show_title empty and filled the description; the first
\* og:description content has three parts and the middle one was returned
C11_MiddlePartRecovered ==
    /\ pc = "returned"
    /\ scanned.show_title = <<>>
    /\ scanned.description # <<>>
    /\ IsSome(FirstOgDescription)
    /\ IsSome(FirstOgDescription[1].content)
    /\ Cardinality(DelimiterAt(FirstOgDescription[1].content[1])) = 2
    /\ extracted[1].show_title = <<"b">>
    /\ extracted[1].description = scanned.description

----------------------------------------------------------------------------
(* clean_text, src/src/main.rs:307-322, one iteration of its loop at a     *)
(* time, on every text of up to MaxTextLen characters; a returned text is  *)
(* given to clean_text again, up to MaxPasses calls in all.                *)

MaxTextLen == 5
MaxPasses == 2

\* a letter, the two whitespace characters, '<' and '>'
TextAlphabet == {"a", SP, NL, LT, GT}
Texts == UNION {[1..n -> TextAlphabet] : n \in 0..MaxTextLen}

\* the range deleted one character short, leaving the '>'
ReplaceRangeShort(cleaned, start, end) ==
    SubSeq(cleaned, 1, start - 1) \o SubSeq(cleaned, end, Len(cleaned))

\* line 315: cleaned.replace_range(start..start + end + 1, ""), end being
\* the index of the '>' in the whole string
ReplaceRange(cleaned, start, end) ==
    SubSeq(cleaned, 1, start - 1) \o SubSeq(cleaned, end + 1, Len(cleaned))

\* str::replace of each pair of whitespace characters by one space, from
\* the left, and trim
RECURSIVE ReplacePairs(_)
ReplacePairs(cleaned) ==
    IF Len(cleaned) < 2 THEN cleaned
    ELSE IF IsWhitespace(cleaned[1]) /\ IsWhitespace(cleaned[2])
         THEN <<SP>> \o ReplacePairs(SubSeq(cleaned, 3, Len(cleaned)))
         ELSE <<cleaned[1]>> \o ReplacePairs(Tail(cleaned))
NormalizeByReplace(cleaned) == Trim(ReplacePairs(cleaned))

\* trim alone
NormalizeByTrim(cleaned) == Trim(cleaned)

\* line 321: cleaned.split_whitespace().collect::<Vec<&str>>().join(" ")
Normalize(cleaned) == JoinSpace(SplitWhitespace(cleaned))

\* lines 312-313: Some(<<start, end>>) when the loop goes on, None when it
\* ends (no '<', or no '>' from the first '<' on)
LoopSpan(cleaned) ==
    LET start == Find(cleaned, LT, 1) IN
    IF start = 0 THEN None
    ELSE LET end == Find(cleaned, GT, start) IN
         IF end = 0 THEN None ELSE Some(<<start, end>>)

CleanInit ==
    /\ pc = "removing"
    /\ source_text \in Texts
    /\ cleaned_text = source_text
    /\ passes = <<>>
    /\ preserve_order = FALSE
    /\ IdleMain /\ IdleExtract /\ IdleLocate /\ IdleJson

\* lines 312-315: one iteration of the while loop
RemoveTag ==
    /\ pc = "removing"
    /\ IsSome(LoopSpan(cleaned_text))
    /\ cleaned_text' = ReplaceRange(cleaned_text, LoopSpan(cleaned_text)[1][1],
                                    LoopSpan(cleaned_text)[1][2])
    /\ UNCHANGED <<source_text, passes, mainVars, extractVars, locateVars,
                   jsonVars, preserve_order>>

\* lines 312-321: the loop ends, the whitespace is normalised and the text
\* returned
ReturnCleaned ==
    /\ pc = "removing"
    /\ ~IsSome(LoopSpan(cleaned_text))
    /\ passes' = Append(passes, Normalize(cleaned_text))
    /\ pc' = "returned"
    /\ UNCHANGED <<source_text, cleaned_text, runVars, extractVars,
                   locateVars, jsonVars, preserve_order>>

\* line 309: clean_text called on the text it returned
CleanAgain ==
    /\ pc = "returned"
    /\ Len(passes) < MaxPasses
    /\ cleaned_text' = passes[Len(passes)]
    /\ pc' = "removing"
    /\ UNCHANGED <<source_text, passes, runVars, extractVars, locateVars,
                   jsonVars, preserve_order>>

CleanNext == RemoveTag \/ ReturnCleaned \/ CleanAgain

SpecClean == CleanInit /\ [][CleanNext]_vars

\* C12: clean_text is idempotent.  The second call, on what the first call
\* returned, returns that same text, and its loop removes nothing; the same
\* holds of clean_text as the extraction applies it.
C12_Idempotent ==
    /\ clean_text(clean_text(source_text)) = clean_text(source_text)
    /\ Len(passes) >= 2 => passes[2] = passes[1]
    /\ (Len(passes) >= 1 /\ pc = "removing") =>
          /\ cleaned_text = passes[1]
          /\ ~IsSome(LoopSpan(cleaned_text))

\* a text with a tag, a whitespace run and an unclosed '<' went through
\* two calls
C12_SecondPassSame ==
    /\ Len(passes) = 2
    /\ passes[1] # source_text
    /\ \E i \in 1..Len(passes[1]) : passes[1][i] = LT
    /\ ~NoTagSpan(source_text)
    /\ ~NoWhitespaceRun(source_text)

\* a text whose whitespace is single spaces between words
WhitespaceNormal(s) ==
    /\ NoEdgeWhitespace(s)
    /\ NoWhitespaceRun(s)
    /\ \A i \in 1..Len(s) : IsWhitespace(s[i]) => s[i] = SP

\* a text with each whitespace run between two words replaced by one space
\* and the whitespace at the ends dropped: a non-whitespace character is
\* kept; a whitespace character becomes a space when the character before
\* it is not whitespace and a non-whitespace character follows somewhere,
\* and is dropped otherwise
RECURSIVE CollapsedFrom(_, _)
CollapsedFrom(s, i) ==
    IF i > Len(s) THEN <<>>
    ELSE (IF ~IsWhitespace(s[i]) THEN <<s[i]>>
          ELSE IF /\ i > 1
                  /\ ~IsWhitespace(s[i - 1])
                  /\ \E j \in (i + 1)..Len(s) : ~IsWhitespace(s[j])
               THEN <<SP>>
               ELSE <<>>)
         \o CollapsedFrom(s, i + 1)
Collapsed(s) == CollapsedFrom(s, 1)

\* C13 as stated: for every text without a <...> span, clean_text returns
\* the text unmodified.
C13_UnmodifiedWithoutTags ==
    (Len(passes) >= 1 /\ NoTagSpan(source_text)) => passes[1] = source_text

\* C13, amended: for every text without a <...> span the loop of clean_text
\* removes nothing, and the text is returned with each whitespace run
\* replaced by one space and the whitespace at its ends removed; it is
\* returned unmodified exactly when its whitespace is already single
\* spaces between words.
C13_WhitespaceNormalizedWithoutTags ==
    (Len(passes) >= 1 /\ NoTagSpan(source_text)) =>
        /\ passes[1] = Collapsed(source_text)
        /\ passes[1] = source_text <=> WhitespaceNormal(source_text)
        /\ (Len(passes) = 1 /\ pc = "returned") => cleaned_text = source_text

\* a text with a stray '>' and a '<' after it, and no tag, came back with
\* its whitespace changed
C13_WhitespaceChanged ==
    /\ Len(passes) >= 1
    /\ NoTagSpan(source_text)
    /\ \E i \in 1..Len(source_text) : source_text[i] = LT
    /\ \E i \in 1..Len(source_text) : source_text[i] = GT
    /\ passes[1] # source_text
    /\ passes[1] # <<>>

\* the positions of '<' in a text, and of the '>' after position i
OpenAt(s) == {i \in 1..Len(s) : s[i] = LT}
CloseAfter(s, i) == {j \in (i + 1)..Len(s) : s[j] = GT}
Least(S) == CHOOSE i \in S : \A j \in S : i <= j

\* the leftmost '<' has a '>' after it
LeftmostClosed(s) == OpenAt(s) # {} /\ CloseAfter(s, Least(OpenAt(s))) # {}

\* the text without the span from the leftmost '<' to the first '>' after it
WithoutLeftmostSpan(s) ==
    LET i == Least(OpenAt(s))
        j == Least(CloseAfter(s, i)) IN
    [k \in 1..(Len(s) - (j - i + 1)) |->
        IF k < i THEN s[k] ELSE s[k + (j - i + 1)]]

\* an iteration of the loop
LoopIteration == pc = "removing" /\ pc' = "removing"
\* the end of the loop and the return
LoopEnd == pc = "removing" /\ pc' = "returned"

\* C17: the tag-removal loop of clean_text ends on every input.  Each
\* iteration happens only while the leftmost '<' has a '>' after it,
\* deletes the span from that '<' to the first '>' after it, both included,
\* and leaves a strictly shorter text, never longer than the input; the
\* loop ends as soon as there is no '<' or the leftmost '<' has no '>' after
\* it, and what is returned is the text as it then stands, that '<' and all
\* that follows it included, with its whitespace runs collapsed and its
\* ends trimmed.  clean_text as the extraction applies it returns the same.
C17_TagLoopTerminates ==
    /\ [][LoopIteration =>
            /\ LeftmostClosed(cleaned_text)
            /\ cleaned_text' = WithoutLeftmostSpan(cleaned_text)
            /\ Len(cleaned_text') < Len(cleaned_text)]_vars
    /\ [][LoopEnd =>
            /\ ~LeftmostClosed(cleaned_text)
            /\ cleaned_text' = cleaned_text
            /\ passes' = Append(passes, Collapsed(cleaned_text))]_vars
    /\ [](Len(cleaned_text) <= Len(source_text))
    /\ [](pc = "removing" =>
            (ENABLED RemoveTag <=> LeftmostClosed(cleaned_text))
            /\ (ENABLED ReturnCleaned <=> ~LeftmostClosed(cleaned_text)))
    /\ [](Len(passes) >= 1 => passes[1] = clean_text(source_text))

\* the loop removed a tag and ended at a '<' with no '>' after it; that '<'
\* is in the returned text, and the whitespace after it was collapsed
C17_UnclosedTagKept ==
    /\ Len(passes) = 1
    /\ pc = "returned"
    /\ Len(cleaned_text) < Len(source_text)
    /\ OpenAt(cleaned_text) # {}
    /\ OpenAt(passes[1]) # {}
    /\ passes[1] # cleaned_text

----------------------------------------------------------------------------
(* validate_url as main called it, src/src/main.rs:33-37 and 89-93 *)

\* a text of the shape scheme://host...: letters, then "://", then a
\* character that is neither '/' nor ':' nor a space
SchemeHostShape(u) ==
    \E c \in 2..(Len(u) - 3) :
        /\ \A k \in 1..(c - 1) : u[k] \in UrlLetters
        /\ u[c] = ":"
        /\ u[c + 1] = "/"
        /\ u[c + 2] = "/"
        /\ u[c + 3] \in UrlLetters

\* C14 as stated: validate_url fails for every string lacking a
\* scheme://host shape, the empty string included, with a message that
\* holds the string given; it succeeds for every http or https URL of that
\* shape; after a failure the run has exited with status 1 with no other
\* call made and no file touched.
C14_ValidatorRejectsShapeless ==
    (GivenUrl /\ calls # <<>>) =>
        /\ ~SchemeHostShape(argv[1]) =>
              /\ calls[1] = Call("validate_url", "", FALSE)
              /\ \E i \in 1..Len(stderr) :
                    /\ stderr[i].msg = "Invalid URL format: "
                    /\ stderr[i].arg = argv[1]
        /\ (SchemeHostShape(argv[1]) /\ argv[1][1] \in {"http", "https"}) =>
              calls[1] = Call("validate_url", "", TRUE)
        /\ Failed("validate_url") =>
              /\ Len(calls) = 1
              /\ pc = "exited"
              /\ exit_code = Some(1)
              /\ \A path \in Paths : files[path] = "absent"

----------------------------------------------------------------------------
(* extract_from_json_ld, src/src/main.rs:152-191, on documents whose       *)
(* schema:episode block is absent, is not JSON, is JSON but not an object, *)
(* or is an object with any choice of the four members.                    *)

\* the texts a member can have as its value; <<>> stands for no member
ScalarTexts == {<<>>, Str(<<SP, "a", SP>>), <<"1">>, <<"null">>}
SeriesTexts ==
    {<<>>, Str(<<"b">>), Brackets(<<>>), Braces(<<>>),
     Braces(Member("name", Str(<<"b", SP>>))),
     Braces(Member("name", <<"1">>)),
     Braces(Member("description", Str(<<"a">>)))}

\* the members present, separated by commas
RECURSIVE Members(_)
Members(pairs) ==
    IF pairs = <<>> THEN <<>>
    ELSE IF pairs[1][2] = <<>> THEN Members(Tail(pairs))
    ELSE Member(pairs[1][1], pairs[1][2])
         \o (IF Members(Tail(pairs)) = <<>> THEN <<>>
             ELSE <<",">> \o Members(Tail(pairs)))

\* the block of the test at lines 741-750, with its line breaks
BlockTexts ==
    {<<NL, SP>> \o Braces(<<NL>> \o Members(<<
            <<"partOfSeries", series>>, <<"name", name>>,
            <<"description", desc>>, <<"datePublished", date>> >>) \o <<NL>>)
        \o <<NL>> :
        series \in SeriesTexts, name \in ScalarTexts,
        desc \in ScalarTexts, date \in ScalarTexts}

\* texts that are not JSON, and JSON that is not an object
OtherTexts ==
    {<<>>, <<"{">>, Braces(Member("name", Str(<<"a">>))) \o <<"}">>,
     Brackets(Braces(Member("name", Str(<<"a">>)))), Str(<<"a">>), <<"null">>}

JsonLdInit ==
    /\ pc = "json_ld"
    /\ document \in {Page(ld, <<>>, <<>>) :
                        ld \in {None} \cup {Some(block) :
                                    block \in BlockTexts \cup OtherTexts}}
    /\ idx = 0
    /\ episode_title = <<>>
    /\ description = <<>>
    /\ show_title = <<>>
    /\ publish_date = <<>>
    /\ scanned = EmptyMetadata
    /\ extracted = None
    /\ preserve_order \in BOOLEAN
    /\ IdleMain /\ IdleLocate /\ IdleJson /\ IdleClean

\* extract_from_json_ld(&document): on Ok the four locals of lines 164-182
\* and the Metadata built from them
ExtractFromJsonLd ==
    /\ pc = "json_ld"
    /\ LET r == extract_from_json_ld(document, preserve_order) IN
       /\ extracted' = Some(r)
       /\ episode_title' = r.v.episode_title
       /\ description' = r.v.description
       /\ show_title' = r.v.show_title
       /\ publish_date' = r.v.publish_date
    /\ pc' = "returned"
    /\ UNCHANGED <<document, idx, scanned, runVars, locateVars, jsonVars,
                   cleanVars, preserve_order>>

JsonLdNext == ExtractFromJsonLd

SpecJsonLd == JsonLdInit /\ [][JsonLdNext]_vars

\* the block of the document parsed, an Option
ParsedBlock ==
    IF IsSome(document.ld) THEN from_str(document.ld[1], preserve_order)
    ELSE None

\* the string member `key` of a value, trimmed; "" when the value is not an
\* object, has no such member, or the member is not a string
StringMember(value, key) ==
    LET hits == {i \in 1..Len(value.m) :
                   /\ value.t = "obj"
                   /\ value.m[i].k = <<key>>
                   /\ value.m[i].v.t = "str"} IN
    IF hits = {} THEN <<>> ELSE Trim(value.m[CHOOSE i \in hits : TRUE].v.s)

\* the member `key` of a value when it is an object, null otherwise
ObjectMember(value, key) ==
    LET hits == {i \in 1..Len(value.m) :
                   value.t = "obj" /\ value.m[i].k = <<key>>} IN
    IF hits = {} THEN JNull ELSE value.m[CHOOSE i \in hits : TRUE].v

\* C15: extract_from_json_ld fails exactly when the document has no
\* schema:episode block or the block is not valid JSON.  In every other case
\* it returns Ok, with episode_title, description, show_title and
\* publish_date the trimmed strings at name, description, partOfSeries.name
\* and datePublished, and the empty string where the member is missing or
\* is not a string.
C15_JsonLdProjection ==
    pc = "returned" =>
        /\ extracted[1].ok <=> IsSome(ParsedBlock)
        /\ ~extracted[1].ok =>
              extracted[1].e = IF IsSome(document.ld)
                               THEN "Failed to parse JSON-LD"
                               ELSE "JSON-LD schema not found"
        /\ extracted[1].ok =>
              /\ extracted[1].v.episode_title
                    = StringMember(ParsedBlock[1], "name")
              /\ extracted[1].v.description
                    = StringMember(ParsedBlock[1], "description")
              /\ extracted[1].v.show_title
                    = StringMember(ObjectMember(ParsedBlock[1],
                                                "partOfSeries"), "name")
              /\ extracted[1].v.publish_date
                    = StringMember(ParsedBlock[1], "datePublished")
              /\ \A f \in Fields : NoEdgeWhitespace(extracted[1].v[f])

\* a block without description, with a number as name, a padded date and a
\* series name: Ok, two fields empty and two trimmed
C15_MissingAndNonString ==
    /\ pc = "returned"
    /\ extracted[1].ok
    /\ ObjectMember(ParsedBlock[1], "description") = JNull
    /\ ObjectMember(ParsedBlock[1], "name") = JNum(<<"1">>)
    /\ ObjectMember(ParsedBlock[1], "datePublished") = JStr(<<SP, "a", SP>>)
    /\ extracted[1].v = Metadata(<<>>, <<>>, <<"b">>, <<"a">>)

----------------------------------------------------------------------------
(* The dispatch tables of the scan, src/src/main.rs:204-279 *)

PropertyTable ==
    {<<"og:title", "episode_title">>, <<"og:description", "description">>,
     <<"og:site_name", "show_title">>}
NameTable ==
    {<<"apple:title", "episode_title">>, <<"description", "description">>,
     <<"apple:description", "description">>}
ItempropTable ==
    {<<"name", "episode_title">>, <<"headline", "episode_title">>,
     <<"description", "description">>, <<"publisher", "show_title">>,
     <<"datePublished", "publish_date">>}

\* the fields an element may fill: those its first present attribute, in
\* the order property, name, itemprop, maps to
Dispatched(element) ==
    IF IsSome(element.property)
    THEN {f \in Fields : <<element.property[1], f>> \in PropertyTable}
    ELSE IF IsSome(element.name)
    THEN {f \in Fields : <<element.name[1], f>> \in NameTable}
    ELSE IF IsSome(element.itemprop)
    THEN {f \in Fields : <<element.itemprop[1], f>> \in ItempropTable}
    ELSE {}

\* the meta element the loop is at takes its turn in the step
ElementScanned == pc = "scan" /\ idx' = idx + 1

\* the fields whose value the step changes
FieldsChanged ==
    {f \in Fields :
        Metadata(episode_title', description', show_title', publish_date')[f]
            # CurrentFields[f]}

============================================================================
